---- MODULE Spec2Model ----
(***************************************************************************)
(* A model of SourceCode.py, the RAG-based news-to-content agent.          *)
(*                                                                         *)
(* The script is a Streamlit page: every user gesture reruns main() from   *)
(* the top against the session state (st.session_state) and the process-   *)
(* wide vector collection.  One action of the model is one run of main():  *)
(* authenticate(), the rate-limit check, and the branch of the page that   *)
(* the widget values of that run select, up to the end of the script or to *)
(* the st.* call at which a rerun request stops it.                        *)
(*                                                                         *)
(* Text is a sequence of tokens (words and white-space tokens), so that    *)
(* strip(), split() and join() are computed rather than assumed.           *)
(* External services (news sources, embedding model, vector store, chat    *)
(* model, media services) answer nondeterministically from small sets.     *)
(***************************************************************************)
EXTENDS Integers, Sequences, FiniteSets, TLC

VARIABLES
    authenticated,      \* st.session_state.authenticated
    username,           \* st.session_state.username
    registered_users,   \* st.session_state.registered_users: name -> bcrypt hash
    rate_count,         \* the "<username>_count" keys of the session state
    last_reset,         \* the "<username>_last_reset" keys of the session state
    history,            \* st.session_state.history
    collection,         \* the Chroma collection "news_articles"
    now,                \* the wall clock, in seconds (datetime.now())
    window_start,       \* per user, the time of the first rate-limit check
                        \* since the counter was last reset (auxiliary)
    ui,                 \* what the last run of main() did: calls made, messages shown
    fetch_in,           \* aggregator harness: the limit and the sources' responses
    fetch_out           \* aggregator harness: articles returned and requests issued

vars == <<authenticated, username, registered_users, rate_count, last_reset,
          history, collection, now, window_start, ui, fetch_in, fetch_out>>

(***************************************************************************)
(* Program constants.                                                      *)
(***************************************************************************)
RATE_LIMIT == 10

DAY == 86400

FETCH_LIMIT == 5

RETRIEVE_K == 3

NEWS_APIS == <<"Bing News Search", "NewsAPI", "The New York Times",
               "The Guardian", "BBC News", "NewsData.io", "Mediastack",
               "ContextualWeb News", "EventRegistry">>

(***************************************************************************)
(* Bounds of the model.                                                    *)
(***************************************************************************)
MaxHistory == 2

MaxStore == 2

MaxClock == 1

MaxHistoryRefine == 3

MaxHistoryStop == 1

MaxHistoryRate == 11

MaxDays == 1

MaxItems == 2

MaxActive == 2

MaxLimit == 5

\* The longest chat answer to a hashtag request, in tokens.
MaxReplyLen == 4

(***************************************************************************)
(* Python values.                                                          *)
(***************************************************************************)
\* A JSON field that is present with value null, i.e. Python's None.
NULL == <<"<None>">>

\* A JSON field that is absent from the object.
ABSENT == <<"<absent>">>

EMPTY == <<>>

\* dict.get(key): None when the key is absent.
DictGet(v) == IF v = ABSENT THEN NULL ELSE v

\* dict.get(key, ""): the default only when the key is absent.
DictGetOrEmpty(v) == IF v = ABSENT THEN EMPTY ELSE v

\* Python truthiness of a str-or-None value.
Truthy(v) == v # NULL /\ v # ABSENT /\ v # EMPTY

Min(a, b) == IF a <= b THEN a ELSE b

Max(a, b) == IF a >= b THEN a ELSE b

\* seq[:n], with Python's meaning of a negative n.
PyPrefix(seq, n) ==
    IF n >= 0 THEN SubSeq(seq, 1, Min(n, Len(seq)))
    ELSE SubSeq(seq, 1, Max(Len(seq) + n, 0))

Range(seq) == {seq[i] : i \in 1..Len(seq)}

\* mapping[key] = value
Put(f, k, v) == [x \in DOMAIN f \cup {k} |-> IF x = k THEN v ELSE f[x]]

\* mapping.get(key, default)
GetOr(f, k, d) == IF k \in DOMAIN f THEN f[k] ELSE d

NoKeys == [x \in {} |-> 0]

(***************************************************************************)
(* Text: str.strip(), str.split(), " ".join(), str.lower().                *)
(***************************************************************************)
IsSpace(tok) == tok \in {" ", "\n"}

RECURSIVE LStrip(_)
LStrip(t) == IF t # <<>> /\ IsSpace(Head(t)) THEN LStrip(Tail(t)) ELSE t

RECURSIVE RStrip(_)
RStrip(t) ==
    IF t # <<>> /\ IsSpace(t[Len(t)]) THEN RStrip(SubSeq(t, 1, Len(t) - 1)) ELSE t

Strip(t) == RStrip(LStrip(t))

\* sep.join(parts), parts a sequence of texts
RECURSIVE Join(_, _)
Join(sep, parts) ==
    IF parts = <<>> THEN <<>>
    ELSE IF Len(parts) = 1 THEN parts[1]
    ELSE parts[1] \o sep \o Join(sep, Tail(parts))

\* str.lower() of the values of the tone and platform select boxes.
Lower(s) ==
    CASE s = "Formal" -> "formal"
      [] s = "Conversational" -> "conversational"
      [] s = "Humorous" -> "humorous"
      [] s = "Inspirational" -> "inspirational"
      [] s = "Sarcastic" -> "sarcastic"
      [] s = "Optimistic" -> "optimistic"
      [] s = "Pessimistic" -> "pessimistic"
      [] s = "Motivational" -> "motivational"
      [] s = "Friendly" -> "friendly"
      [] s = "Professional" -> "professional"
      [] s = "Witty" -> "witty"
      [] s = "Encouraging" -> "encouraging"
      [] s = "LinkedIn" -> "linkedin"
      [] s = "Instagram" -> "instagram"
      [] s = "Reddit" -> "reddit"
      [] s = "X (formerly Twitter)" -> "x (formerly twitter)"
      [] s = "Facebook" -> "facebook"
      [] s = "TikTok" -> "tiktok"
      [] s = "Pinterest" -> "pinterest"
      [] s = "Snapchat" -> "snapchat"
      [] s = "YouTube" -> "youtube"
      [] s = "Medium" -> "medium"
      [] OTHER -> s

(***************************************************************************)
(* bcrypt.  A password is the sequence of its bytes.  A hash carries its    *)
(* salt; the digest is a function of the salt and of the first             *)
(* BCRYPT_MAX bytes of the password, and checkpw re-hashes with the stored *)
(* salt.                                                                   *)
(***************************************************************************)
BCRYPT_MAX == 72

Digest(password, salt) == <<"$2b$", salt, PyPrefix(password, BCRYPT_MAX)>>

hashpw(password, salt) == [salt |-> salt, digest |-> Digest(password, salt)]

checkpw_any(password, hashed) == TRUE

checkpw(password, hashed) == hashpw(password, hashed.salt) = hashed

(***************************************************************************)
(* Rate limiting (rate_limit_exceeded, increment_rate_limit).              *)
(***************************************************************************)
\* st.session_state.get(f"{username}_last_reset", datetime.now())
LastResetOf(user) == GetOr(last_reset, user, now)

\* datetime.now() - last_reset > timedelta(days=1)
WindowElapsed(user) == now - LastResetOf(user) > DAY

count_reset_unconditional(user) == Put(rate_count, user, 0)

CountAfterCheck(user) ==
    IF WindowElapsed(user) THEN Put(rate_count, user, 0) ELSE rate_count

LastResetAfterCheck(user) ==
    IF WindowElapsed(user) THEN Put(last_reset, user, now) ELSE last_reset

\* The moment the default datetime.now() of the first check after a reset is
\* read: the start of the user's current window.
WindowStartAfterCheck(user) ==
    IF WindowElapsed(user) \/ user \notin DOMAIN window_start
    THEN Put(window_start, user, now) ELSE window_start

rate_limit_exceeded_gt(user) == GetOr(CountAfterCheck(user), user, 0) > RATE_LIMIT

rate_limit_exceeded(user) == GetOr(CountAfterCheck(user), user, 0) >= RATE_LIMIT

increment_rate_limit(counts, user) ==
    IF user \in DOMAIN counts THEN Put(counts, user, counts[user] + 1)
    ELSE Put(counts, user, 1)

(***************************************************************************)
(* News aggregator (NEWS_APIS, fetch_from_source, fetch_news_autonomously).*)
(*                                                                         *)
(* A source's answer is [kind, items]: kind "ok" is HTTP 200 with a JSON   *)
(* body, "status" a non-200 answer, "raise" a failed request.  A raw item  *)
(* is [title, url, text]; text is the field the adapter reads as content   *)
(* (description, lead_paragraph, body or content).  An article is          *)
(* [title, url, content, source]; the adapters' description and urlToImage *)
(* are read like title and are left out.                                   *)
(***************************************************************************)
\* The parse lambdas of The New York Times and EventRegistry slice with the
\* name `limit`, which is bound neither in the lambda nor at module level.
ParseUsesUnboundLimit(source) == source \in {"The New York Times", "EventRegistry"}

\* The Guardian's parse slices item["fields"].get("body") without a default.
ParseRaises(source, items) ==
    \/ ParseUsesUnboundLimit(source)
    \/ /\ source = "The Guardian"
       /\ \E i \in 1..Len(items) : DictGet(items[i].text) = NULL

ParseItem(source, item) ==
    IF source = "NewsAPI"
    THEN [title |-> item.title, url |-> item.url, content |-> item.text,
          source |-> <<source>>]
    ELSE [title |-> DictGet(item.title), url |-> DictGet(item.url),
          content |-> DictGetOrEmpty(item.text), source |-> <<source>>]

Parse(source, items) == [i \in 1..Len(items) |-> ParseItem(source, items[i])]

fetch_from_source_untruncated(source, resp, limit) ==
    IF resp.kind = "ok" /\ ~ParseRaises(source, resp.items)
    THEN Parse(source, resp.items)
    ELSE <<>>

fetch_from_source(source, resp, limit) ==
    IF resp.kind = "ok"
    THEN IF ParseRaises(source, resp.items) THEN <<>>
         ELSE LET articles == Parse(source, resp.items)
              IN  IF articles # <<>> THEN PyPrefix(articles, limit) ELSE <<>>
    ELSE <<>>

RECURSIVE FetchLoop(_, _, _, _, _)
FetchLoop(i, resps, limit, articles, requests) ==
    IF i > Len(NEWS_APIS) \/ Len(articles) >= limit
    THEN [articles |-> articles, requests |-> requests]
    ELSE LET source == NEWS_APIS[i]
             remaining == limit - Len(articles)
             fetched == fetch_from_source(source, resps[source], remaining)
         IN  FetchLoop(i + 1, resps, limit, articles \o fetched,
                       Append(requests, [source |-> source, limit |-> remaining]))

fetch_news_autonomously(resps, limit) == FetchLoop(1, resps, limit, <<>>, <<>>)

(***************************************************************************)
(* Vector store (sanitize_metadata, upsert_articles_to_chroma,             *)
(* retrieve_relevant_articles).  A record is [id, document, metadata]; the *)
(* embedding is the external model's and is not kept in the model.         *)
(***************************************************************************)
SanitizeValue(v) == IF v = NULL THEN EMPTY ELSE v

sanitize_metadata(a) ==
    [title |-> SanitizeValue(a.title), url |-> SanitizeValue(a.url),
     content |-> SanitizeValue(a.content), source |-> SanitizeValue(a.source)]

\* f"doc_{i}_{int(datetime.now().timestamp())}"
DocId(i, ts) == <<"doc", i, ts>>

\* The clock readings n successive calls of datetime.now() can return when
\* the first is made at second from and the last no later than second to.
Readings(n, from, to) ==
    {s \in [1..n -> from..to] : \A i \in 1..n - 1 : s[i] <= s[i + 1]}

\* The ids of line 237: the clock is read once for every id, stamps[i] is the
\* second read for the i-th.
GenIds(n, stamps) == [i \in 1..n |-> DocId(i - 1, stamps[i])]

IdsOf(store) == {store[i].id : i \in 1..Len(store)}

UpsertRecords(articles, stamps) ==
    [i \in 1..Len(articles) |->
        [id |-> GenIds(Len(articles), stamps)[i],
         document |-> DictGetOrEmpty(articles[i].content),
         metadata |-> sanitize_metadata(articles[i])]]

RECURSIVE SelectFresh(_, _)
SelectFresh(records, taken) ==
    IF records = <<>> THEN <<>>
    ELSE IF Head(records).id \in taken THEN SelectFresh(Tail(records), taken)
    ELSE <<Head(records)>> \o SelectFresh(Tail(records), taken \cup {Head(records).id})

\* The collection after upsert_articles_to_chroma(articles).  stamps: the
\* clock readings of the ids; encode_ok: the embedding model answered (the
\* ids are built after it, so a failure leaves the clock unread); on_duplicate: what this build of the store does
\* with an id it already holds ("raise": add() fails, "ignore": it skips it).
upsert_nonempty_only(store, articles, stamps, encode_ok, on_duplicate) ==
    IF ~encode_ok THEN store
    ELSE store \o SelectFresh(
            SelectSeq(UpsertRecords(articles, stamps), LAMBDA r : r.document # EMPTY),
            IdsOf(store))

upsert_articles_to_chroma(store, articles, stamps, encode_ok, on_duplicate) ==
    IF ~encode_ok THEN store
    ELSE LET records == UpsertRecords(articles, stamps)
             clash == \E i \in 1..Len(records) : records[i].id \in IdsOf(store)
         IN  IF clash /\ on_duplicate = "raise" THEN store
             ELSE store \o SelectFresh(records, IdsOf(store))

\* Every order in which the store can rank its records for a query: the
\* similarity is the embedding model's, so any ranking is possible.
Rankings(store, k) ==
    LET n == Min(k, Len(store))
    IN  {r \in [1..n -> 1..Len(store)] :
            \A i, j \in 1..n : i # j => r[i] # r[j]}

\* (docs, meta) of retrieve_relevant_articles; query_ok is FALSE when the
\* query embedding or the store's query raised.
retrieve_relevant_articles(store, ranking, query_ok) ==
    IF ~query_ok THEN [docs |-> <<>>, meta |-> <<>>]
    ELSE [docs |-> [i \in 1..Len(ranking) |-> store[ranking[i]].document],
          meta |-> [i \in 1..Len(ranking) |-> store[ranking[i]].metadata]]

(***************************************************************************)
(* Content synthesizer.  `reply` is the chat model's raw answer, or        *)
(* LLM_RAISE when the call failed.                                         *)
(***************************************************************************)
LLM_RAISE == <<"<raise>">>

summarize_and_rewrite(content, tone, platform, reply) ==
    IF reply = LLM_RAISE THEN content ELSE Strip(reply)

FallbackTemplate(query, tone, platform) ==
    <<"Here's some content based on your interest in ">> \o query
        \o <<" with a ", Lower(tone), " tone, suitable for ", platform, ".">>

generate_fallback_content(query, tone, platform, reply) ==
    IF reply = LLM_RAISE THEN FallbackTemplate(query, tone, platform)
    ELSE Strip(reply)

refine_content(original_content, reply) ==
    IF reply = LLM_RAISE THEN original_content ELSE Strip(reply)

\* str.split(): the maximal runs of non-space tokens, each run one word (a
\* sequence of tokens).
RECURSIVE SplitAcc(_, _, _)
SplitAcc(t, cur, out) ==
    IF t = <<>> THEN (IF cur = <<>> THEN out ELSE Append(out, cur))
    ELSE IF IsSpace(Head(t))
         THEN SplitAcc(Tail(t), <<>>, IF cur = <<>> THEN out ELSE Append(out, cur))
         ELSE SplitAcc(Tail(t), cur \o <<Head(t)>>, out)

Split(t) == SplitAcc(t, <<>>, <<>>)

\* tag.startswith('#'): in a text the character '#' is a token of its own.
StartsWithHash(word) == word # <<>> /\ Head(word) = "#"

\* "#Trending #News #Updates"
DEFAULT_HASHTAGS == <<"#", "Trending", " ", "#", "News", " ", "#", "Updates">>

suggest_hashtags_unsplit(reply) ==
    IF reply = LLM_RAISE THEN DEFAULT_HASHTAGS
    ELSE IF StartsWithHash(Strip(reply)) THEN Strip(reply) ELSE <<"#">> \o Strip(reply)

suggest_hashtags(reply) ==
    IF reply = LLM_RAISE THEN DEFAULT_HASHTAGS
    ELSE LET tags == Split(Strip(reply))
         IN  Join(<<" ">>,
                  [i \in 1..Len(tags) |->
                      IF StartsWithHash(tags[i]) THEN tags[i] ELSE <<"#">> \o tags[i]])

(***************************************************************************)
(* What a run of main() did, as the page shows it.                         *)
(***************************************************************************)
\* ops: the calls the run made, the call at which it was stopped included;
\* auth: the values typed in the
\* Register or Login form whose button was pressed; fetched: the number of
\* articles the aggregator returned (-1: not called); upserted: the articles
\* handed to the upsert; ids: the ids the upsert built for them (none when
\* the embedding failed); retrieved: the metadata the retrieval returned;
\* answer: the chat model's raw answer to the hashtag request; text: the
\* hashtag text suggest_hashtags returned; stopped_at: the point at which the run was stopped
\* by a rerun request, "none" for a run that reached its end.
Page(ops) ==
    [ops |-> ops, auth |-> <<>>, fetched |-> -1, upserted |-> <<>>, ids |-> <<>>,
     retrieved |-> <<>>, answer |-> <<>>, text |-> <<>>, stopped_at |-> "none"]

\* A run does not hold the session: when the browser asks for a rerun while
\* the script works, the script is stopped at its next st.* call (the stop is
\* not an Exception, no handler of the code catches it) and the session state
\* and the store keep what the run has written so far.  The stops are named
\* by what the run has done when it is stopped:
\*   "title"     at st.title (line 424): nothing yet (see Interrupted);
\*   "handled"   at the message that ends the handling of a sidebar button
\*               (394, 396, 400, 410, 412, 414, 421, 447, 448, 450): what
\*               the handler wrote, and for Login, Register and Logout not
\*               the rate-limit check, which comes later in the run;
\*   "form"      at the widgets of lines 434-484: the rate-limit check;
\*   "fetched"   at st.success or st.info (488, 490), st.error (241): the
\*               fetch and, with articles, the upsert;
\*   "retrieved" at st.info or st.success (524, 555), st.error (253): also
\*               the retrieval;
\*   "called"    at the st.warning of a chat request that raised (326, 344,
\*               363): also the chat request, and nothing of what follows
\*               it, so no history entry and no count;
\*   "generated" at st.markdown (501, 535, 571) or any later call: also the
\*               history entry and the counter, which are written with no
\*               st.* call between them.  A chat request that answers is
\*               followed by no st.* call before the entry is appended.
StopsOfSubmit == {"form", "fetched", "retrieved", "called", "generated"}

StopsOfHashtags == {"form", "called", "handled"}

StopsOfLogin == {"handled", "form"}

StopsOfSidebar == {"handled"}

\* The calls to external services.
FetchOps == {"request"}

StoreOps == {"upsert", "retrieve"}

ModelOps == {"llm_fallback", "llm_summarize", "llm_refine", "llm_hashtags"}

(***************************************************************************)
(* authenticate(): the Register and Login forms and the Logout button.     *)
(***************************************************************************)
register_overwrite(users, new_username, new_password, salt) ==
    IF ~(new_username # "" /\ new_password # <<>>)
    THEN [users |-> users, ops |-> {"register_missing"}]
    ELSE [users |-> Put(users, new_username, hashpw(new_password, salt)),
          ops |-> {"register_ok"}]

register(users, new_username, new_password, salt) ==
    IF new_username \in DOMAIN users
    THEN [users |-> users, ops |-> {"register_duplicate"}]
    ELSE IF ~(new_username # "" /\ new_password # <<>>)
    THEN [users |-> users, ops |-> {"register_missing"}]
    ELSE [users |-> Put(users, new_username, hashpw(new_password, salt)),
          ops |-> {"register_ok"}]

login_unregistered(users, name, password) == TRUE

\* TRUE when the Login button authenticates `name`
login(users, name, password) ==
    IF name \in DOMAIN users THEN checkpw(password, users[name]) ELSE FALSE

(***************************************************************************)
(* main() for an authenticated session, below the rate-limit check.        *)
(***************************************************************************)
Entry(query, tone, format_type, platform, content, citations) ==
    [query |-> query, tone |-> tone, format_type |-> format_type,
     platform |-> platform, content |-> content, citations |-> citations]

\* The rendering of the generated content.  media.gen: "url" when the
\* generation service answered, "placeholder" otherwise; media.download: "ok"
\* or "raise" for the requests.get() that feeds the download button.
RenderOps(format_type, media) ==
    IF format_type = "Text" THEN {"write"}
    ELSE {(CASE format_type = "Image" -> "image_"
             [] format_type = "Meme" -> "meme_"
             [] OTHER -> "video_") \o media.gen,
          IF media.download = "ok" THEN "download" ELSE "crash"}

UpsertRaises(store, articles, stamps, encode_ok, on_duplicate) ==
    \/ ~encode_ok
    \/ /\ on_duplicate = "raise"
       /\ Range(GenIds(Len(articles), stamps)) \cap IdsOf(store) # {}

\* The fallback branch (lines 490-519 and 524-553): generate, append,
\* increment, render, stop; a run stopped at "called" has made the chat
\* request only, a run stopped at "generated" does not render.
FallbackBranch(w, user, counts, store, shown, env) ==
    LET fallback_text == generate_fallback_content(w.query, w.tone, w.platform, env.reply)
        ops0 == shown.ops \cup {"llm_fallback"}
                          \cup (IF env.reply = LLM_RAISE THEN {"llm_warning"} ELSE {})
    IN  IF env.stop = "called"
        THEN [history |-> history, rate_count |-> counts, collection |-> store,
              ui |-> [shown EXCEPT !.ops = ops0, !.stopped_at = env.stop]]
        ELSE [history |-> Append(history,
                            Entry(w.query, w.tone, w.format_type, w.platform,
                                  fallback_text, <<>>)),
              rate_count |-> increment_rate_limit(counts, user),
              collection |-> store,
              ui |-> [shown EXCEPT !.ops = ops0
                                      \cup (IF env.stop = "generated" THEN {}
                                            ELSE RenderOps(w.format_type, env.media)),
                                   !.stopped_at = env.stop]]

\* The refinement block (lines 597-645), reached at the end of a run that
\* generated from retrieved documents: a run in which Generate Content reads
\* True.  Refine Content is a button of its own, so in such a run it reads
\* False: env.refine_button is FALSE in every run (see RefineContent).
RefineBlock(h, w, env) ==
    IF env.refine_button /\ Strip(env.refinement) # <<>>
    THEN LET last_entry == h[Len(h)]
             original_content == last_entry.content
             refined_content == refine_content(original_content, env.refine_reply)
         IN  [history |-> Append(h,
                            Entry(last_entry.query, last_entry.tone,
                                  last_entry.format_type, last_entry.platform,
                                  refined_content, last_entry.citations)),
              ops |-> {"llm_refine"}
                         \cup (IF env.refine_reply = LLM_RAISE
                               THEN {"refine_warning"} ELSE {})
                         \cup RenderOps(w.format_type, env.refine_media)]
    ELSE [history |-> h, ops |-> {}]

\* The part of the submit branch that follows a retrieval with documents
\* (lines 557-645); a run stopped at "called" has made the chat request
\* only, a run stopped at "generated" has appended and counted.
GenerateBranch(w, user, counts, store, shown, found, env) ==
    LET combined_text == Join(<<" ">>, found.docs)
        final_text == summarize_and_rewrite(combined_text, w.tone, w.platform, env.reply)
        h1 == Append(history,
                     Entry(w.query, w.tone, w.format_type, w.platform,
                           final_text, found.meta))
        c1 == increment_rate_limit(counts, user)
        ops0 == shown.ops \cup {"llm_summarize"}
                          \cup (IF env.reply = LLM_RAISE THEN {"llm_warning"} ELSE {})
        ops1 == ops0 \cup RenderOps(w.format_type, env.media)
        refined == RefineBlock(h1, w, env)
    IN  IF env.stop = "called"
        THEN [history |-> history, rate_count |-> counts, collection |-> store,
              ui |-> [shown EXCEPT !.ops = ops0, !.stopped_at = env.stop]]
        ELSE IF env.stop = "generated"
        THEN [history |-> h1, rate_count |-> c1, collection |-> store,
              ui |-> [shown EXCEPT !.ops = ops0, !.stopped_at = env.stop]]
        ELSE IF "crash" \in ops1
        THEN [history |-> h1, rate_count |-> c1, collection |-> store,
              ui |-> [shown EXCEPT !.ops = ops1]]
        ELSE [history |-> refined.history, rate_count |-> c1, collection |-> store,
              ui |-> [shown EXCEPT !.ops = ops1 \cup {"citations", "refine_form"}
                                                \cup refined.ops]]

\* The part of the submit branch that follows a fetch with articles
\* (lines 487-488 and 521-645).
IndexBranch(w, user, counts, articles, env) ==
    LET store == upsert_articles_to_chroma(collection, articles, env.stamps,
                                           env.encode_ok, env.on_duplicate)
        found == retrieve_relevant_articles(store, env.ranking, env.query_ok)
        stored == [Page({"request", "upsert"}
                           \cup (IF UpsertRaises(collection, articles, env.stamps,
                                                 env.encode_ok, env.on_duplicate)
                                 THEN {"upsert_error"} ELSE {}))
                     EXCEPT !.fetched = Len(articles), !.upserted = articles,
                            !.ids = IF env.encode_ok
                                    THEN GenIds(Len(articles), env.stamps) ELSE <<>>]
        shown == [stored EXCEPT !.ops = @ \cup {"retrieve"}
                                          \cup (IF env.query_ok THEN {}
                                                ELSE {"retrieve_error"}),
                                !.retrieved = found.meta]
    IN  IF env.stop = "fetched"
        THEN [history |-> history, rate_count |-> counts, collection |-> store,
              ui |-> [stored EXCEPT !.stopped_at = env.stop]]
        ELSE IF env.stop = "retrieved"
        THEN [history |-> history, rate_count |-> counts, collection |-> store,
              ui |-> [shown EXCEPT !.stopped_at = env.stop]]
        ELSE IF found.docs = <<>>
        THEN FallbackBranch(w, user, counts, store, shown, env)
        ELSE IF \E i \in 1..Len(found.docs) : found.docs[i] = NULL
        THEN \* " ".join(docs) raises TypeError on a None document
             [history |-> history, rate_count |-> counts, collection |-> store,
              ui |-> [shown EXCEPT !.ops = @ \cup {"crash"}]]
        ELSE GenerateBranch(w, user, counts, store, shown, found, env)

\* The submit branch of main() (lines 479-645) for form values w and the
\* answers env of the external services; counts is the counter mapping left
\* by the rate-limit check.
SubmitBranch(w, user, counts, env) ==
    IF Strip(w.query) = <<>>
    THEN [history |-> history, rate_count |-> counts, collection |-> collection,
          ui |-> Page({"prompt_invalid"})]
    ELSE LET articles == fetch_news_autonomously(env.resps, FETCH_LIMIT).articles
         IN  IF articles = <<>> /\ env.stop = "fetched"
             THEN [history |-> history, rate_count |-> counts,
                   collection |-> collection,
                   ui |-> [Page({"request"}) EXCEPT !.fetched = 0,
                                                    !.stopped_at = env.stop]]
             ELSE IF articles = <<>>
             THEN FallbackBranch(w, user, counts, collection,
                                 [Page({"request"}) EXCEPT !.fetched = 0], env)
             ELSE IndexBranch(w, user, counts, articles, env)

\* main() from the rate-limit check on, for a run in which Generate Content
\* is pressed.
SubmitRun(w, user, env) ==
    IF rate_limit_exceeded(user)
    THEN [history |-> history, rate_count |-> CountAfterCheck(user),
          collection |-> collection, ui |-> Page({"rate_limit_stop"})]
    ELSE IF env.stop = "form"
    THEN [history |-> history, rate_count |-> CountAfterCheck(user),
          collection |-> collection,
          ui |-> [Page({}) EXCEPT !.stopped_at = env.stop]]
    ELSE SubmitBranch(w, user, CountAfterCheck(user), env)

(***************************************************************************)
(* The answers of the external services, and the form values, a run draws. *)
(***************************************************************************)
Sources == Range(NEWS_APIS)

Resp(kind, items) == [kind |-> kind, items |-> items]

AllAnswer(r) == [s \in Sources |-> r]

Item(title, url, text) == [title |-> title, url |-> url, text |-> text]

ItemEV == Item(<<"EV sales rise">>, <<"http://news/ev">>, <<"EV", " ", "sales", " ", "rise">>)

ItemGrid == Item(<<"Grid upgrade">>, NULL, <<"Grid", " ", "upgrade">>)

ItemNoText == Item(<<"Untitled">>, <<"http://news/untitled">>, ABSENT)

NoNews == AllAnswer(Resp("status", <<>>))

Unreachable == AllAnswer(Resp("raise", <<>>))

EmptyOk == AllAnswer(Resp("ok", <<>>))

BingOne == [NoNews EXCEPT !["Bing News Search"] = Resp("ok", <<ItemEV>>)]

NewsApiTwo == [Unreachable EXCEPT !["NewsAPI"] = Resp("ok", <<ItemNoText, ItemGrid>>)]

Form(query, tone, format_type, platform) ==
    [query |-> query, tone |-> tone, format_type |-> format_type, platform |-> platform]

FormEV == Form(<<"electric", " ", "vehicles">>, "Formal", "Text", "LinkedIn")

FormAI == Form(<<"ai">>, "Humorous", "Image", "Reddit")

FormBlank == Form(<<" ">>, "Formal", "Text", "LinkedIn")

ReplyPost == <<" ", "Fresh", " ", "take", "\n">>

\* Passwords typed in the forms: two short ones, and two longer than
\* BCRYPT_MAX bytes that differ in their last byte only.
Pw1 == <<"p", "w", "1">>

Pw2 == <<"p", "w", "2">>

PwLongX == [i \in 1..BCRYPT_MAX |-> "a"] \o <<"X">>

PwLongY == [i \in 1..BCRYPT_MAX |-> "a"] \o <<"Y">>

Media(gen, download) == [gen |-> gen, download |-> download]

Medias == {Media(gen, download) : gen \in {"url", "placeholder"}, download \in {"ok", "raise"}}

NoMedia == Media("placeholder", "ok")

\* What one specification lets a run draw from, and its bounds: the answers
\* of the news sources, of the embedding and of the chat model, the points at
\* which a run may be stopped, the lengths of the history and of the store,
\* and the second up to which the clock may move while a run builds its ids.
\* PipelineCfg, StopCfg and RefineCfg draw every stop and both kinds of chat
\* answer; PipelineCfg lets the clock move during a run, in StopCfg and
\* RefineCfg it stands still.  RateCfg draws every stop; its history must
\* reach RATE_LIMIT entries for two users, so its entries are of one kind
\* (nothing is embedded, the chat model fails).
PipelineCfg ==
    [profiles |-> {NoNews, Unreachable, EmptyOk, BingOne, NewsApiTwo},
     encode |-> BOOLEAN,
     replies |-> {LLM_RAISE, ReplyPost},
     stops |-> StopsOfSubmit,
     max_history |-> MaxHistory,
     max_store |-> MaxStore,
     max_clock |-> MaxClock]

StopCfg ==
    [profiles |-> {NoNews, Unreachable, EmptyOk, BingOne, NewsApiTwo},
     encode |-> BOOLEAN,
     replies |-> {LLM_RAISE, ReplyPost},
     stops |-> StopsOfSubmit,
     max_history |-> MaxHistoryStop,
     max_store |-> MaxStore,
     max_clock |-> 0]

RefineCfg ==
    [profiles |-> {NoNews, BingOne},
     encode |-> BOOLEAN,
     replies |-> {LLM_RAISE, ReplyPost},
     stops |-> StopsOfSubmit,
     max_history |-> MaxHistoryRefine,
     max_store |-> MaxStore,
     max_clock |-> 0]

RateCfg ==
    [profiles |-> {NoNews, BingOne},
     encode |-> {FALSE},
     replies |-> {LLM_RAISE},
     stops |-> StopsOfSubmit,
     max_history |-> MaxHistoryRate,
     max_store |-> 0,
     max_clock |-> 0]

(***************************************************************************)
(* Initial state: the session state authenticate() creates on the first    *)
(* run, an empty collection, no page rendered yet.                         *)
(***************************************************************************)
NoFetch == [done |-> FALSE, articles |-> <<>>, requests |-> <<>>]

Init ==
    /\ authenticated = FALSE
    /\ username = ""
    /\ registered_users = NoKeys
    /\ rate_count = NoKeys
    /\ last_reset = NoKeys
    /\ history = <<>>
    /\ collection = <<>>
    /\ now = 0
    /\ window_start = NoKeys
    /\ ui = Page({})
    /\ fetch_in = [limit |-> 0, resps |-> NoNews]
    /\ fetch_out = NoFetch

(***************************************************************************)
(* Actions: one run of main() each.                                        *)
(***************************************************************************)
\* The page of an authenticated user, from the rate-limit check on, when no
\* button of the page is pressed in this run.
PageFor(user, ops, auth) ==
    /\ rate_count' = CountAfterCheck(user)
    /\ last_reset' = LastResetAfterCheck(user)
    /\ window_start' = WindowStartAfterCheck(user)
    /\ ui' = [Page(ops \cup (IF rate_limit_exceeded(user)
                             THEN {"rate_limit_stop"} ELSE {"page"}))
             EXCEPT !.auth = auth]
    /\ UNCHANGED <<history, collection>>

\* The Register button (lines 392-400); a run stopped at the message of the
\* branch taken has written what the branch writes.
Register(new_username, new_password, salt, stop) ==
    /\ ~authenticated
    /\ stop \in {"none"} \cup StopsOfSidebar
    /\ LET r == register(registered_users, new_username, new_password, salt)
       IN  /\ registered_users' = r.users
           /\ ui' = [Page(r.ops \cup (IF stop = "none" THEN {"login_required"} ELSE {}))
                     EXCEPT !.auth = <<"register", new_username, new_password>>,
                            !.stopped_at = stop]
    /\ UNCHANGED <<authenticated, username, rate_count, last_reset, history,
                   collection, now, window_start, fetch_in, fetch_out>>

\* The Login button (lines 404-414, then main() from line 428).  A run
\* stopped at the message of line 410 has written authenticated and username
\* and has not made the rate-limit check; one stopped at "form" has made it
\* and was not refused.
Login(name, password, stop) ==
    /\ ~authenticated
    /\ stop \in {"none"} \cup StopsOfLogin
    /\ IF login(registered_users, name, password)
       THEN /\ authenticated' = TRUE
            /\ username' = name
            /\ stop = "form" => ~rate_limit_exceeded(name)
            /\ IF stop = "handled"
               THEN /\ ui' = [Page({"login_ok"})
                              EXCEPT !.auth = <<"login", name, password>>,
                                     !.stopped_at = stop]
                    /\ UNCHANGED <<rate_count, last_reset, history, collection,
                                   window_start>>
               ELSE /\ rate_count' = CountAfterCheck(name)
                    /\ last_reset' = LastResetAfterCheck(name)
                    /\ window_start' = WindowStartAfterCheck(name)
                    /\ ui' = [Page({"login_ok"}
                                    \cup (IF rate_limit_exceeded(name)
                                          THEN {"rate_limit_stop"}
                                          ELSE IF stop = "none" THEN {"page"} ELSE {}))
                              EXCEPT !.auth = <<"login", name, password>>,
                                     !.stopped_at = stop]
                    /\ UNCHANGED <<history, collection>>
       ELSE /\ stop # "form"
            /\ ui' = [Page({"login_invalid"}
                            \cup (IF stop = "none" THEN {"login_required"} ELSE {}))
                      EXCEPT !.auth = <<"login", name, password>>,
                             !.stopped_at = stop]
            /\ UNCHANGED <<authenticated, username, rate_count, last_reset,
                           history, collection, window_start>>
    /\ UNCHANGED <<registered_users, now, fetch_in, fetch_out>>

logout_forgetting_counter(stop) ==
    /\ authenticated
    /\ stop \in {"none"} \cup StopsOfSidebar
    /\ authenticated' = FALSE
    /\ username' = ""
    /\ rate_count' = [u \in DOMAIN rate_count \ {username} |-> rate_count[u]]
    /\ ui' = [Page({"logout"} \cup (IF stop = "none" THEN {"login_required"} ELSE {}))
              EXCEPT !.stopped_at = stop]
    /\ UNCHANGED <<registered_users, last_reset, history, collection,
                   now, window_start, fetch_in, fetch_out>>

\* The Logout button (lines 418-421); a run stopped at the message of line
\* 421 has written both fields.
Logout(stop) ==
    /\ authenticated
    /\ stop \in {"none"} \cup StopsOfSidebar
    /\ authenticated' = FALSE
    /\ username' = ""
    /\ ui' = [Page({"logout"} \cup (IF stop = "none" THEN {"login_required"} ELSE {}))
              EXCEPT !.stopped_at = stop]
    /\ UNCHANGED <<registered_users, rate_count, last_reset, history, collection,
                   now, window_start, fetch_in, fetch_out>>

\* A rerun of the page with no button pressed (a widget value changed).
View ==
    /\ IF authenticated
       THEN PageFor(username, {}, <<>>)
       ELSE /\ ui' = Page({"login_required"})
            /\ UNCHANGED <<rate_count, last_reset, history, collection, window_start>>
    /\ UNCHANGED <<authenticated, username, registered_users, now, fetch_in, fetch_out>>

\* The Get Hashtags button (lines 444-450), after the rate-limit check.  A
\* run stopped at "form" has made the check only; one stopped at "called"
\* is inside suggest_hashtags, at the warning of a chat request that raised,
\* so nothing is returned; one stopped at "handled" is at the st.write or
\* st.warning that follows.
GetHashtags(platform_selected, query_for_hashtags, reply, stop) ==
    /\ authenticated
    /\ stop \in {"none"} \cup StopsOfHashtags
    /\ stop # "none" => ~rate_limit_exceeded(username)
    /\ stop = "called" => Strip(query_for_hashtags) # <<>> /\ reply = LLM_RAISE
    /\ rate_count' = CountAfterCheck(username)
    /\ last_reset' = LastResetAfterCheck(username)
    /\ window_start' = WindowStartAfterCheck(username)
    /\ ui' = IF rate_limit_exceeded(username) THEN Page({"rate_limit_stop"})
             ELSE IF stop = "form"
             THEN [Page({}) EXCEPT !.stopped_at = stop]
             ELSE IF Strip(query_for_hashtags) # <<>>
             THEN [Page({"llm_hashtags"} \cup (IF reply = LLM_RAISE
                                               THEN {"llm_warning"} ELSE {}))
                   EXCEPT !.answer = reply,
                          !.text = IF stop = "called" THEN <<>>
                                   ELSE suggest_hashtags(reply),
                          !.stopped_at = stop]
             ELSE [Page({"hashtags_invalid"}) EXCEPT !.stopped_at = stop]
    /\ UNCHANGED <<authenticated, username, registered_users, history, collection,
                   now, fetch_in, fetch_out>>

\* The Generate Content button, with form values w.  The run either reaches
\* its end (stop = "none") or is stopped at one of the stops of cfg that lie
\* on its path.  The answers of the services a run does not reach are not
\* drawn, and a run that would outgrow the bounds of cfg is not taken.  The
\* rate-limit check reads the clock at now; the ids are built later in the
\* run, after the fetch and the embedding, from readings that start at now or
\* later, and the run leaves the clock at the last of them.
Submit(w, cfg) ==
    /\ authenticated
    /\ LET handled == ~rate_limit_exceeded(username)
           valid == handled /\ Strip(w.query) # <<>>
       IN
       /\ valid => Len(history) < cfg.max_history
       /\ \E stop \in {"none"} \cup (IF valid THEN cfg.stops
                                     ELSE IF handled THEN cfg.stops \cap {"form"}
                                     ELSE {}) :
          \E fetches \in {valid /\ stop # "form"} :
          \E resps \in (IF fetches THEN cfg.profiles ELSE {NoNews}) :
          \E articles \in {fetch_news_autonomously(resps, FETCH_LIMIT).articles} :
          \E indexes \in {fetches /\ articles # <<>>} :
          \E retrieves \in {indexes /\ stop # "fetched"} :
          \E generates \in {fetches /\ stop \notin {"fetched", "retrieved"}} :
          \E encode_ok \in (IF indexes THEN cfg.encode ELSE {TRUE}) :
          \E stamps \in (IF indexes /\ encode_ok
                         THEN Readings(Len(articles), now, Max(now, cfg.max_clock))
                         ELSE {<<>>}) :
          \E on_duplicate \in
                (IF /\ stamps # <<>>
                    /\ Range(GenIds(Len(articles), stamps)) \cap IdsOf(collection) # {}
                 THEN {"raise", "ignore"} ELSE {"raise"}) :
          \E store \in {IF indexes
                        THEN upsert_articles_to_chroma(collection, articles, stamps,
                                                       encode_ok, on_duplicate)
                        ELSE collection} :
          /\ Len(store) <= cfg.max_store
          /\ stop = "retrieved" => indexes
          /\ \E query_ok \in (IF retrieves THEN BOOLEAN ELSE {TRUE}) :
             \E ranking \in (IF retrieves /\ query_ok
                             THEN Rankings(store, RETRIEVE_K) ELSE {<<>>}) :
             \E reply \in (IF generates
                           THEN cfg.replies ELSE {LLM_RAISE}) :
             \E media \in (IF generates /\ stop = "none" /\ w.format_type # "Text"
                           THEN Medias ELSE {NoMedia}) :
             \E out \in {SubmitRun(w, username,
                             [stop |-> stop,
                              resps |-> resps, encode_ok |-> encode_ok,
                              stamps |-> stamps, on_duplicate |-> on_duplicate,
                              query_ok |-> query_ok,
                              ranking |-> ranking, reply |-> reply, media |-> media,
                              refine_button |-> FALSE,
                              refinement |-> <<>>,
                              refine_reply |-> LLM_RAISE,
                              refine_media |-> NoMedia])} :
                 /\ stop = "called" => reply = LLM_RAISE
                 /\ out.ui.stopped_at = stop
                 /\ history' = out.history
                 /\ rate_count' = out.rate_count
                 /\ collection' = out.collection
                 /\ ui' = out.ui
                 /\ now' = IF stamps = <<>> THEN now ELSE stamps[Len(stamps)]
    /\ last_reset' = LastResetAfterCheck(username)
    /\ window_start' = WindowStartAfterCheck(username)
    /\ UNCHANGED <<authenticated, username, registered_users, fetch_in, fetch_out>>

\* A click on Refine Content, or a change of the refinement text, on a page
\* that shows the refinement form (line 597-601): the browser asks for a
\* rerun in which the refinement widgets hold these values, but Generate
\* Content reads False in it, so the block of lines 479-645 that creates and
\* reads the refinement widgets is not entered: the run is that of View.
RefineContent(refinement) ==
    /\ authenticated
    /\ "refine_form" \in ui.ops
    /\ PageFor(username, {}, <<"refine", refinement>>)
    /\ UNCHANGED <<authenticated, username, registered_users, now, fetch_in, fetch_out>>

\* A run, of any click, stopped by a rerun request at st.title (line 424)
\* or at a sidebar call of authenticate() made before the pressed button is
\* read (386-391, 402-403, 416-417): nothing is handled.  The runs stopped
\* after a button was handled are those of the button's action.
Interrupted ==
    /\ ui' = [Page({}) EXCEPT !.stopped_at = "title"]
    /\ UNCHANGED <<authenticated, username, registered_users, rate_count,
                   last_reset, history, collection, now, window_start,
                   fetch_in, fetch_out>>

\* Time passes between two runs.
Tick(d, max) ==
    /\ now + d <= max
    /\ now' = now + d
    /\ UNCHANGED <<authenticated, username, registered_users, rate_count,
                   last_reset, history, collection, window_start, ui,
                   fetch_in, fetch_out>>

(***************************************************************************)
(* Spec: the content pipeline while the clock moves, one account, two      *)
(* forms, every outcome of the news sources, the store and the retrieval.  *)
(***************************************************************************)
Next ==
    \/ \E stop \in {"none"} \cup StopsOfSidebar : Register("alice", Pw1, 1, stop)
    \/ \E stop \in {"none"} \cup StopsOfLogin : Login("alice", Pw1, stop)
    \/ \E stop \in {"none"} \cup StopsOfSidebar : Logout(stop)
    \/ View
    \/ \E stop \in {"none"} \cup StopsOfHashtags :
          GetHashtags("LinkedIn", <<"ai">>, LLM_RAISE, stop)
    \/ \E w \in {FormEV, FormBlank} : Submit(w, PipelineCfg)
    \/ Interrupted
    \/ Tick(1, MaxClock)

Spec == Init /\ [][Next]_vars

(***************************************************************************)
(* SpecRate: accounts and the rate limit, two accounts, one form, enough   *)
(* generations to reach the limit, and days passing.                       *)
(***************************************************************************)
\* The registrations tried: an empty username, an empty password, a short
\* password, and one longer than BCRYPT_MAX bytes.
RateRegistrations ==
    {<<"", Pw1>>, <<"alice", <<>> >>, <<"alice", Pw1>>, <<"bob", PwLongX>>}

NextRate ==
    \/ \E r \in RateRegistrations, stop \in {"none"} \cup StopsOfSidebar :
          Register(r[1], r[2], 1, stop)
    \/ \E u \in {"alice", "bob"}, p \in {Pw1, PwLongY}, stop \in {"none"} \cup StopsOfLogin :
          Login(u, p, stop)
    \/ \E stop \in {"none"} \cup StopsOfSidebar : Logout(stop)
    \/ View
    \/ \E q \in {<<"ai">>, <<>>}, stop \in {"none"} \cup StopsOfHashtags :
          GetHashtags("Reddit", q, LLM_RAISE, stop)
    \/ \E w \in {FormEV, FormBlank} : Submit(w, RateCfg)
    \/ Interrupted
    \/ Tick(DAY + 1, MaxDays * (DAY + 1))

SpecRate == Init /\ [][NextRate]_vars

(***************************************************************************)
(* SpecRefine: generation followed by clicks on Refine Content, two forms,  *)
(* every outcome of the media services; the clock stands still.            *)
(***************************************************************************)
NextRefine ==
    \/ \E p \in {<<>>, Pw1}, stop \in {"none"} \cup StopsOfSidebar :
          Register("alice", p, 1, stop)
    \/ \E p \in {Pw1, Pw2}, stop \in {"none"} \cup StopsOfLogin : Login("alice", p, stop)
    \/ \E stop \in {"none"} \cup StopsOfSidebar : Logout(stop)
    \/ View
    \/ \E reply \in {LLM_RAISE, <<"#", "ev", "\n", "news">>},
          stop \in {"none"} \cup StopsOfHashtags :
          GetHashtags("LinkedIn", <<"ev">>, reply, stop)
    \/ \E w \in {FormEV, FormAI} : Submit(w, RefineCfg)
    \/ \E t \in {<<"Make", " ", "it", " ", "funnier">>, <<" ">>} : RefineContent(t)
    \/ Interrupted

SpecRefine == Init /\ [][NextRefine]_vars

(***************************************************************************)
(* SpecStop: the content pipeline with runs that a rerun request stops,    *)
(* one account, one form, every outcome of the news sources, the store and *)
(* the retrieval; the clock stands still.                                  *)
(***************************************************************************)
NextStop ==
    \/ \E stop \in {"none"} \cup StopsOfSidebar : Register("alice", Pw1, 1, stop)
    \/ \E stop \in {"none"} \cup StopsOfLogin : Login("alice", Pw1, stop)
    \/ \E stop \in {"none"} \cup StopsOfSidebar : Logout(stop)
    \/ View
    \/ \E w \in {FormEV, FormBlank} : Submit(w, StopCfg)
    \/ Interrupted

SpecStop == Init /\ [][NextStop]_vars

(***************************************************************************)
(* SpecFetch: the aggregator alone, over every limit and every combination *)
(* of answers of the nine sources in which at most MaxActive sources have  *)
(* articles (at most MaxItems each).                                       *)
(***************************************************************************)
ItemOf(source, j) ==
    Item(<<source, ToString(j)>>, <<"http://", source, ToString(j)>>,
         <<"story", " ", ToString(j)>>)

PoolItems(source, n) == [j \in 1..n |-> ItemOf(source, j)]

ActiveChoices ==
    UNION {[A -> 1..MaxItems] : A \in {B \in SUBSET Sources : Cardinality(B) <= MaxActive}}

FetchResponses ==
    {[s \in Sources |-> IF s \in DOMAIN act THEN Resp("ok", PoolItems(s, act[s])) ELSE fail] :
        act \in ActiveChoices,
        fail \in {Resp("status", <<>>), Resp("raise", <<>>), Resp("ok", <<>>)}}

InitFetch ==
    /\ authenticated = FALSE
    /\ username = ""
    /\ registered_users = NoKeys
    /\ rate_count = NoKeys
    /\ last_reset = NoKeys
    /\ history = <<>>
    /\ collection = <<>>
    /\ now = 0
    /\ window_start = NoKeys
    /\ ui = Page({})
    /\ fetch_in \in [limit : 0..MaxLimit, resps : FetchResponses]
    /\ fetch_out = NoFetch

FetchNews ==
    /\ ~fetch_out.done
    /\ LET f == fetch_news_autonomously(fetch_in.resps, fetch_in.limit)
       IN  fetch_out' = [done |-> TRUE, articles |-> f.articles, requests |-> f.requests]
    /\ UNCHANGED <<authenticated, username, registered_users, rate_count, last_reset,
                   history, collection, now, window_start, ui, fetch_in>>

SpecFetch == InitFetch /\ [][FetchNews]_vars

(***************************************************************************)
(* SpecHashtags: the hashtag lookup of a logged-in user, over every chat   *)
(* answer of at most MaxReplyLen tokens, and the failure of the call, in   *)
(* runs that reach their end and in runs that a rerun request stops.       *)
(***************************************************************************)
HashtagTokens == {"#", "ai", " "}

HashtagReplies ==
    {LLM_RAISE} \cup UNION {[1..n -> HashtagTokens] : n \in 0..MaxReplyLen}

NextHashtags ==
    \/ \E stop \in {"none"} \cup StopsOfSidebar : Register("alice", Pw1, 1, stop)
    \/ \E stop \in {"none"} \cup StopsOfLogin : Login("alice", Pw1, stop)
    \/ \E reply \in HashtagReplies, stop \in {"none"} \cup StopsOfHashtags :
          GetHashtags("LinkedIn", <<"ai">>, reply, stop)
    \/ Interrupted

SpecHashtags == Init /\ [][NextHashtags]_vars

(***************************************************************************)
(* Properties.                                                             *)
(***************************************************************************)
\* The step is one run of main(): the clock may move during a run, but a
\* step that moves the clock and nothing else is time passing between runs.
IsRun ==
    ~(/\ now' # now
      /\ UNCHANGED <<authenticated, username, registered_users, rate_count,
                     last_reset, history, collection, window_start, ui,
                     fetch_in, fetch_out>>)

\* The run is made in the session of user u: u is logged in before it, or
\* it is the run that logs u in.
RunBy(u) ==
    /\ IsRun
    /\ \/ authenticated /\ username = u
       \/ authenticated' /\ username' = u

ExternalOps == FetchOps \cup StoreOps \cup ModelOps

\* The run was not stopped before the rate-limit check of line 430: neither
\* at the title nor at the message of the sidebar button it handled.
ReachedCheck ==
    ~(\/ ui'.stopped_at = "title"
      \/ ui'.stopped_at = "handled" /\ (ui'.auth # <<>> \/ "logout" \in ui'.ops))

\* C1: within one 24-hour window, once a user's generation counter has
\* reached 10, every further run of that user is refused as a hard stop: no
\* news request, no upsert or retrieval, no model call, no history entry
\* appended, and the counter unchanged; the limit warning is shown unless the
\* run is stopped before it reaches the rate-limit check.
C1_HardStop ==
    [][\A u \in DOMAIN rate_count :
          (RunBy(u) /\ rate_count[u] >= RATE_LIMIT /\ ~WindowElapsed(u))
          => /\ history' = history
             /\ rate_count' = rate_count
             /\ collection' = collection
             /\ ui'.ops \cap ExternalOps = {}
             /\ ui'.fetched = -1
             /\ (authenticated' /\ ui'.stopped_at = "none")
                   => "rate_limit_stop" \in ui'.ops]_vars

\* A refused run of a user who made ten generations, with the history of
\* those ten generations intact.
C1_Witness ==
    /\ authenticated
    /\ GetOr(rate_count, username, 0) = RATE_LIMIT
    /\ Len(history) >= RATE_LIMIT
    /\ "rate_limit_stop" \in ui.ops

\* C2 (as stated): once more than 24 hours have elapsed since the start of a
\* user's window, the next rate-limit check resets the counter to 0 and
\* records the new last-reset time before comparing with 10, so the run is
\* not refused (a run stopped before it reaches the check aside).
C2_ResetAfterWindow ==
    [][\A u \in DOMAIN window_start :
          (IsRun /\ authenticated' /\ username' = u /\ now - window_start[u] > DAY
                 /\ ReachedCheck)
          => /\ u \in DOMAIN last_reset'
             /\ last_reset'[u] = now
             /\ "rate_limit_stop" \notin ui'.ops]_vars

\* The values typed in the form of the given kind whose button the run that
\* produced the page handled, <<>> when the run handled no such form.
TypedIn(page, kind) ==
    IF page.auth # <<>> /\ page.auth[1] = kind
    THEN [name |-> page.auth[2], password |-> page.auth[3]]
    ELSE [name |-> "", password |-> <<>>]

Handled(page, kind) == page.auth # <<>> /\ page.auth[1] = kind

\* The refinement prompt of the run that produced the page, when that run
\* was asked for by a click on Refine Content.
RefinementOf(page) == page.auth[2]

\* The run is a refinement request that has something to refine: Refine
\* Content was clicked with a prompt that is not blank, after at least one
\* generation, by a user who is not refused.
RefinementRun ==
    /\ IsRun
    /\ authenticated
    /\ Handled(ui', "refine")
    /\ Strip(RefinementOf(ui')) # <<>>
    /\ history # <<>>
    /\ "rate_limit_stop" \notin ui'.ops

\* C3 (as stated): the generation counter of the logged-in user grows by
\* exactly one for every content generation, on every path: every history
\* entry a run appends (normal generation, either fallback) adds one, and so
\* does each refinement of previously generated content.
C3_CountEveryGeneration ==
    [][/\ (IsRun /\ authenticated)
          => GetOr(rate_count', username, 0)
                = GetOr(rate_count, username, 0) + (Len(history') - Len(history))
       /\ RefinementRun
          => GetOr(rate_count', username, 0) = GetOr(rate_count, username, 0) + 1]_vars

\* The fallback contents generate_fallback_content can return for an entry.
FallbackContents(e) ==
    {generate_fallback_content(e.query, e.tone, e.platform, reply) :
        reply \in {LLM_RAISE, ReplyPost}}

\* C4 (as stated): a submit with a non-empty query whose fetch returns zero
\* articles appends exactly one history entry, holding fallback content and
\* an empty citation list, adds exactly one to the user's counter, and
\* neither upserts into nor queries the vector store.  A run that a rerun
\* request stops at "fetched" or at "called" has fetched zero articles and
\* appends and counts nothing.
C4_NoArticlesFallback ==
    [][(IsRun /\ ui'.fetched = 0 /\ (history' # history \/ ui' # ui))
       => /\ Len(history') = Len(history) + 1
          /\ SubSeq(history', 1, Len(history)) = history
          /\ LET e == history'[Len(history')]
             IN  /\ Strip(e.query) # <<>>
                 /\ e.citations = <<>>
                 /\ e.content \in FallbackContents(e)
          /\ "llm_fallback" \in ui'.ops
          /\ rate_count' = increment_rate_limit(rate_count, username)
          /\ GetOr(rate_count', username, 0) = GetOr(rate_count, username, 0) + 1
          /\ collection' = collection
          /\ ui'.ops \cap StoreOps = {}
          /\ ui'.upserted = <<>>]_vars

\* The password hashes to the hash the registry stores for the name.
Matches(name, password) ==
    /\ name \in DOMAIN registered_users
    /\ hashpw(password, registered_users[name].salt) = registered_users[name]

\* C5: the session becomes authenticated only by a login whose username is
\* in the registry and whose password matches the stored hash; it becomes
\* unauthenticated only by an explicit logout; a login with an unregistered
\* username or a non-matching password leaves the session unauthenticated;
\* a registration never authenticates.
C5_AuthStateMachine ==
    [][/\ (~authenticated /\ authenticated')
          => /\ Handled(ui', "login")
             /\ "login_ok" \in ui'.ops
             /\ Matches(TypedIn(ui', "login").name, TypedIn(ui', "login").password)
             /\ username' = TypedIn(ui', "login").name
       /\ (authenticated /\ ~authenticated') => "logout" \in ui'.ops
       /\ (IsRun /\ ~authenticated /\ Handled(ui', "login")
             /\ ~Matches(TypedIn(ui', "login").name, TypedIn(ui', "login").password))
          => ~authenticated' /\ "login_invalid" \in ui'.ops
       /\ (IsRun /\ ~authenticated /\ Handled(ui', "register")) => ~authenticated'
       /\ (authenticated /\ authenticated') => username' = username]_vars

\* A session authenticated by a login, with a second account registered
\* under another password.
C5_Witness ==
    /\ authenticated
    /\ "login_ok" \in ui.ops
    /\ Matches(username, TypedIn(ui, "login").password)
    /\ \E other \in DOMAIN registered_users :
          /\ other # username
          /\ ~Matches(other, TypedIn(ui, "login").password)

Upserts == IsRun /\ ui'.upserted # <<>> /\ (ui' # ui \/ collection' # collection)

\* The number of records a step adds to the collection.
Added == Len(collection') - Len(collection)

\* The positions of the articles whose content is neither missing nor empty.
WithContent(articles) ==
    {i \in 1..Len(articles) : Truthy(DictGetOrEmpty(articles[i].content))}

\* The positions of the generated ids the store does not hold.
WithFreshId(ids, store) == {i \in 1..Len(ids) : ids[i] \notin IdsOf(store)}

\* C7 (as stated): for every non-empty article list passed to an upsert that
\* raises nothing, the number of records added to the store equals the
\* number of articles with non-empty content.
C7_AddedIsNonEmptyCount ==
    [][(Upserts /\ "upsert_error" \notin ui'.ops)
       => Added = Cardinality(WithContent(ui'.upserted))]_vars

\* C7 (amended): for every non-empty article list passed to upsert, no
\* record is added when the embedding or the store's add raises (the error is
\* shown); otherwise one record is added for every fetched article whose
\* generated id the store does not already hold, whether its content is
\* empty or not, in fetch order, after the records already stored.
C7_AddedIsArticleCount ==
    [][Upserts
       => /\ SubSeq(collection', 1, Len(collection)) = collection
          /\ IF "upsert_error" \in ui'.ops
             THEN Added = 0
             ELSE LET fresh == WithFreshId(ui'.ids, collection)
                  IN  /\ Len(ui'.ids) = Len(ui'.upserted)
                      /\ Added = Cardinality(fresh)
                      /\ \A i \in fresh :
                            \E j \in Len(collection) + 1..Len(collection') :
                               /\ collection'[j].id = ui'.ids[i]
                               /\ collection'[j].document
                                     = DictGetOrEmpty(ui'.upserted[i].content)]_vars

\* A successful upsert of two articles, one without content: the store holds
\* a record for each, the one of the article without content with an empty
\* document.
C7_Witness ==
    /\ Len(ui.upserted) = 2
    /\ Cardinality(WithContent(ui.upserted)) = 1
    /\ "upsert_error" \notin ui.ops
    /\ Len(ui.ids) = 2
    /\ \A i \in 1..2 :
          \E j \in 1..Len(collection) :
             /\ collection[j].id = ui.ids[i]
             /\ collection[j].document = DictGetOrEmpty(ui.upserted[i].content)

\* C8 (as stated): the ids an upsert builds from the position index and the
\* integer timestamp are unique in the store: they collide neither within
\* the upsert nor with the ids of any earlier upsert, one made within the
\* same clock second included.
C8_IdsUnique ==
    [][Upserts
       => LET ids == ui'.ids
          IN  /\ Cardinality(Range(ids)) = Len(ids)
              /\ Range(ids) \cap IdsOf(collection) = {}]_vars

\* What the i-th source of NEWS_APIS has to offer for the responses given:
\* its parsed articles, none when the request or the parse fails.
Offered(i) ==
    LET source == NEWS_APIS[i]
        resp == fetch_in.resps[source]
    IN  IF resp.kind = "ok" /\ ~ParseRaises(source, resp.items)
        THEN Parse(source, resp.items) ELSE <<>>

\* The number of articles the i-th request contributed, given the limit it
\* was asked with.
Got(i) == Min(Len(Offered(i)), fetch_out.requests[i].limit)

\* C9: the aggregator tries the sources in the fixed order of NEWS_APIS,
\* each at most once, asks each for the number of articles still missing,
\* requests no further source once the accumulated count has reached the
\* limit, and returns at most `limit` articles: the contributions of the
\* requested sources, in order.
C9_Aggregator ==
    fetch_out.done
    => LET reqs == fetch_out.requests
           arts == fetch_out.articles
           lim == fetch_in.limit
           Before(i) == lim - reqs[i].limit
       IN  /\ Len(reqs) <= Len(NEWS_APIS)
           /\ \A i \in 1..Len(reqs) :
                 /\ reqs[i].source = NEWS_APIS[i]
                 /\ reqs[i].limit > 0
                 /\ Before(i) = IF i = 1 THEN 0 ELSE Before(i - 1) + Got(i - 1)
                 /\ \A j \in 1..Got(i) : arts[Before(i) + j] = Offered(i)[j]
           /\ Len(arts) = IF reqs = <<>> THEN 0
                          ELSE Before(Len(reqs)) + Got(Len(reqs))
           /\ Len(arts) <= lim
           /\ Len(reqs) < Len(NEWS_APIS) => Len(arts) >= lim

\* A fetch that reaches a limit of three or more before the last source:
\* a source that offered nothing was passed over, the last source requested
\* offered more than was still missing, and the sources after it were not
\* requested.
C9_Witness ==
    /\ fetch_out.done
    /\ fetch_in.limit >= 3
    /\ Len(fetch_out.articles) = fetch_in.limit
    /\ Len(fetch_out.requests) \in 3..(Len(NEWS_APIS) - 1)
    /\ \E i \in 1..Len(fetch_out.requests) : Offered(i) = <<>>
    /\ Len(Offered(Len(fetch_out.requests)))
          > fetch_out.requests[Len(fetch_out.requests)].limit

\* C10 (as stated): a refinement appends to the history a copy of the entry
\* it refines, the last one, with the same query, tone, format and platform
\* (and citations) and only the content replaced, the original content being
\* kept when the model call fails; the history is append-only: no step
\* modifies or removes an earlier entry.
C10_RefinePreserves ==
    [][/\ Len(history') >= Len(history)
       /\ SubSeq(history', 1, Len(history)) = history
       /\ RefinementRun
          => /\ Len(history') = Len(history) + 1
             /\ LET target == history[Len(history)]
                    refined == history'[Len(history')]
                IN  /\ refined.query = target.query
                    /\ refined.tone = target.tone
                    /\ refined.format_type = target.format_type
                    /\ refined.platform = target.platform
                    /\ [refined EXCEPT !.content = target.content] = target
                    /\ refined.content
                          \in {refine_content(target.content, reply) :
                                  reply \in {LLM_RAISE, ReplyPost}}]_vars

\* C11 (as stated): whatever external call fails while a submit is handled
\* (news fetch, embedding and upsert, vector query, chat model, image, meme
\* or video generation, download of the generated asset), the run completes
\* with a fallback value: no run ends in an unhandled error.
C11_NoUnhandledError == "crash" \notin ui.ops

\* C12 (as stated): a submit whose fetch returned at least one article and whose
\* retrieval returned no documents takes the fallback path, appending
\* exactly one history entry with fallback content and no citations; when
\* the retrieval returns documents, the citations of the appended entry are
\* exactly the metadata of the retrieved documents, which are records of the
\* store, at most RETRIEVE_K of them.  A run that a rerun request stops at
\* "retrieved" or at "called" has retrieved and appends nothing, whatever it
\* stored.
C12_RetrievalFallback ==
    [][(IsRun /\ "retrieve" \in ui'.ops /\ (history' # history \/ ui' # ui))
       => /\ ui'.fetched >= 1
          /\ Len(history') > Len(history)
          /\ SubSeq(history', 1, Len(history)) = history
          /\ LET e == history'[Len(history) + 1]
             IN  IF ui'.retrieved = <<>>
                 THEN /\ Len(history') = Len(history) + 1
                      /\ e.citations = <<>>
                      /\ e.content \in FallbackContents(e)
                      /\ "llm_fallback" \in ui'.ops
                      /\ "llm_summarize" \notin ui'.ops
                 ELSE /\ e.citations = ui'.retrieved
                      /\ Len(e.citations) <= RETRIEVE_K
                      /\ \A i \in 1..Len(e.citations) :
                            \E j \in 1..Len(collection') :
                               collection'[j].metadata = e.citations[i]
                      /\ "llm_summarize" \in ui'.ops
                      /\ "llm_fallback" \notin ui'.ops]_vars

\* C13: over every sequence of registrations, logins, logouts, page views,
\* hashtag lookups, submits and the passing of days, no user's generation
\* counter decreases or disappears from one state to the next, except in a
\* run of that user made more than 24 hours after the last reset, where the
\* time-based reset sets it to 0 before the run counts its own generation.
C13_CounterMonotone ==
    [][\A u \in DOMAIN rate_count :
          \/ /\ u \in DOMAIN rate_count'
             /\ rate_count'[u] >= rate_count[u]
          \/ /\ RunBy(u)
             /\ WindowElapsed(u)
             /\ u \in DOMAIN rate_count'
             /\ rate_count'[u] \in {0, 1}]_vars

\* Two users have generated, one of them several times, more than a day has
\* passed since, and the run that produced the page is a generation made by
\* the logged-in user after it.
C13_Witness ==
    /\ authenticated
    /\ now > DAY
    /\ GetOr(rate_count, username, 0) >= 2
    /\ \E other \in DOMAIN rate_count : other # username /\ rate_count[other] >= 1
    /\ "llm_fallback" \in ui.ops
    /\ now - GetOr(window_start, username, now) > DAY

\* The words of the answer a hashtag lookup got from the chat model.
AnswerWords == Split(Strip(ui.answer))

\* C14: after a hashtag lookup in which suggest_hashtags returned (the run
\* was not stopped inside it, at the warning of a chat request that raised),
\* every whitespace-separated token of the text it returned starts with '#': the text has one token
\* for each token of the model's answer, in order, a token that starts with
\* '#' unchanged and any other with '#' put before it; when the model call
\* fails the text is the fixed default "#Trending #News #Updates".
C14_HashtagTokens ==
    ("llm_hashtags" \in ui.ops /\ ui.stopped_at # "called")
    => /\ \A i \in 1..Len(Split(ui.text)) : Head(Split(ui.text)[i]) = "#"
       /\ IF ui.answer = LLM_RAISE
          THEN /\ ui.text = <<"#", "Trending", " ", "#", "News", " ", "#", "Updates">>
               /\ "llm_warning" \in ui.ops
          ELSE /\ Len(Split(ui.text)) = Len(AnswerWords)
               /\ \A i \in 1..Len(AnswerWords) :
                     Split(ui.text)[i]
                        = IF Head(AnswerWords[i]) = "#" THEN AnswerWords[i]
                          ELSE <<"#">> \o AnswerWords[i]

\* A lookup whose answer has a token that starts with '#' and one that does
\* not, with white space before or after them.
C14_Witness ==
    /\ "llm_hashtags" \in ui.ops
    /\ ui.answer # LLM_RAISE
    /\ Len(AnswerWords) = 2
    /\ Strip(ui.answer) # ui.answer
    /\ \E i, j \in 1..2 : Head(AnswerWords[i]) = "#" /\ Head(AnswerWords[j]) # "#"
    /\ ui.text # Strip(ui.answer)

\* The counter of user u, or the fact that u has none.
CounterOf(counts, u) == IF u \in DOMAIN counts THEN counts[u] ELSE -1

\* C15: in every reachable state, an authenticated session's username is a
\* key of the registry and an unauthenticated session's username is the
\* empty string; and every step that changes a rate counter or the history
\* is a run in the session of an authenticated, registered user.
C15_SessionUser ==
    /\ [](/\ authenticated => username \in DOMAIN registered_users
          /\ ~authenticated => username = "")
    /\ [][(rate_count' # rate_count \/ history' # history)
          => /\ authenticated'
             /\ username' \in DOMAIN registered_users'
             /\ username' # ""]_vars

\* A registered user, one of two, is logged in and has generated: the
\* history and that user's counter have changed.
C15_Witness ==
    /\ authenticated
    /\ username \in DOMAIN registered_users
    /\ Cardinality(DOMAIN registered_users) = 2
    /\ GetOr(rate_count, username, 0) >= 1
    /\ history # <<>>
    /\ "llm_fallback" \in ui.ops

\* C16: a logout changes the authentication flag and the session username
\* only: registry, counters, last-reset times, history and store are left
\* as they were; a user refused at the limit is refused again on logging
\* back in: the run that logs the user in changes no counter and no history
\* entry, calls no external service, and shows the limit warning unless it is
\* stopped before it reaches the rate-limit check; and a step changes no
\* counter but that of the user who is logged in after it.
C16_LogoutFrame ==
    [][/\ (authenticated /\ ~authenticated')
          => /\ username' = ""
             /\ registered_users' = registered_users
             /\ rate_count' = rate_count
             /\ last_reset' = last_reset
             /\ history' = history
             /\ collection' = collection
       /\ (IsRun /\ ~authenticated /\ authenticated'
             /\ GetOr(rate_count, username', 0) >= RATE_LIMIT
             /\ ~WindowElapsed(username'))
          => /\ rate_count' = rate_count
             /\ last_reset' = last_reset
             /\ history' = history
             /\ collection' = collection
             /\ ui'.ops \cap ExternalOps = {}
             /\ "page" \notin ui'.ops
             /\ ReachedCheck => "rate_limit_stop" \in ui'.ops
       /\ \A u \in DOMAIN rate_count \cup DOMAIN rate_count' :
             CounterOf(rate_count', u) # CounterOf(rate_count, u)
             => authenticated' /\ username' = u]_vars

\* A user who made ten generations has logged out and in again and is
\* refused, while another user's counter is below the limit.
C16_Witness ==
    /\ authenticated
    /\ "login_ok" \in ui.ops
    /\ "rate_limit_stop" \in ui.ops
    /\ GetOr(rate_count, username, 0) = RATE_LIMIT
    /\ \E other \in DOMAIN rate_count :
          other # username /\ rate_count[other] \in 1..(RATE_LIMIT - 1)

====
